---- MODULE Spec2Model ----
(***************************************************************************)
(* The static-analysis pipeline of tools/pipeline: combine.py (the Bundle  *)
(* Builder) aggregates the raw artifacts of a repository into bundle.json, *)
(* render_html.py (the Report Renderer) turns bundle.json into report.html.*)
(*                                                                         *)
(* Text is a sequence of one-character strings.  A JSON value, as Python's *)
(* json module holds it in memory, is a record [t, s, kids]: t is the type *)
(* tag, s the characters of a string or of an integer, kids the members    *)
(* of an object (key k, value v, in insertion order) or the elements of an *)
(* array (k empty).                                                        *)
(***************************************************************************)
EXTENDS Integers, Sequences, FiniteSets, TLC

\* ------------------------------------------------------------------ text

RECURSIVE Concat(_)
\* ''.join(parts)
Concat(parts) ==
    IF parts = <<>> THEN <<>> ELSE Head(parts) \o Concat(Tail(parts))

\* s[i:i+len(lit)] == lit  (str.startswith(lit, i), 1-based)
StartsAt(s, i, lit) ==
    /\ i >= 1
    /\ i + Len(lit) - 1 <= Len(s)
    /\ SubSeq(s, i, i + Len(lit) - 1) = lit

\* s.endswith(lit)
EndsWith(s, lit) ==
    /\ Len(s) >= Len(lit)
    /\ SubSeq(s, Len(s) - Len(lit) + 1, Len(s)) = lit

RECURSIVE Spaces(_)
Spaces(n) == IF n <= 0 THEN <<>> ELSE <<" ">> \o Spaces(n - 1)

\* ------------------------------------------------------------ JSON values

JStr(s) == [t |-> "str", s |-> s, kids |-> <<>>]
JNum(s) == [t |-> "num", s |-> s, kids |-> <<>>]
JNull == [t |-> "null", s |-> <<>>, kids |-> <<>>]
JTrue == [t |-> "true", s |-> <<>>, kids |-> <<>>]
JFalse == [t |-> "false", s |-> <<>>, kids |-> <<>>]
JArr(items) ==
    [t |-> "arr", s |-> <<>>,
     kids |-> [i \in 1..Len(items) |-> [k |-> <<>>, v |-> items[i]]]]
JObj(members) == [t |-> "obj", s |-> <<>>, kids |-> members]

\* the key sequence of a dict, in insertion order
Keys(d) == [i \in 1..Len(d.kids) |-> d.kids[i].k]

HasKey(d, key) == \E i \in 1..Len(d.kids) : d.kids[i].k = key

\* dict.get(key, default)
Get(d, key, default) ==
    IF HasKey(d, key)
    THEN d.kids[CHOOSE i \in 1..Len(d.kids) : d.kids[i].k = key].v
    ELSE default

\* d[key] = value: an existing key keeps its position and takes the new
\* value, a new key is appended
DictSet(d, key, value) ==
    IF HasKey(d, key)
    THEN JObj([i \in 1..Len(d.kids) |->
                  IF d.kids[i].k = key THEN [k |-> key, v |-> value]
                  ELSE d.kids[i]])
    ELSE JObj(Append(d.kids, [k |-> key, v |-> value]))

\* ---------------------------------------------------------- json encoder

\* json.encoder.ESCAPE_DCT, restricted to the characters of the model
EscChar(c) ==
    CASE c = "\"" -> <<"\\", "\"">>
      [] c = "\\" -> <<"\\", "\\">>
      [] c = "\n" -> <<"\\", "n">>
      [] c = "\t" -> <<"\\", "t">>
      [] OTHER -> <<c>>

\* json.encoder.py_encode_basestring_ascii
EncStr(s) ==
    <<"\"">> \o Concat([i \in 1..Len(s) |-> EscChar(s[i])]) \o <<"\"">>

\* indent=None is written NoIndent
NoIndent == -1

NewlineIndent(indent, level) ==
    IF indent = NoIndent THEN <<>> ELSE <<"\n">> \o Spaces(indent * level)

\* item separator: ', ' without indent, ',' with one
ItemSep(indent) == IF indent = NoIndent THEN <<",", " ">> ELSE <<",">>

RECURSIVE Enc(_, _, _)
\* json.encoder._make_iterencode: the text of value v at nesting level
Enc(v, indent, level) ==
    LET sep == ItemSep(indent) \o NewlineIndent(indent, level + 1)
        Item(i) ==
            (IF i = 1 THEN <<>> ELSE sep)
            \o (IF v.t = "obj" THEN EncStr(v.kids[i].k) \o <<":", " ">>
                ELSE <<>>)
            \o Enc(v.kids[i].v, indent, level + 1)
        Body == Concat([i \in 1..Len(v.kids) |-> Item(i)])
    IN  CASE v.t = "str" -> EncStr(v.s)
          [] v.t = "num" -> v.s
          [] v.t = "null" -> <<"n", "u", "l", "l">>
          [] v.t = "true" -> <<"t", "r", "u", "e">>
          [] v.t = "false" -> <<"f", "a", "l", "s", "e">>
          [] v.t = "arr" ->
                IF v.kids = <<>> THEN <<"[", "]">>
                ELSE <<"[">> \o NewlineIndent(indent, level + 1) \o Body
                     \o NewlineIndent(indent, level) \o <<"]">>
          [] v.t = "obj" ->
                IF v.kids = <<>> THEN <<"{", "}">>
                ELSE <<"{">> \o NewlineIndent(indent, level + 1) \o Body
                     \o NewlineIndent(indent, level) \o <<"}">>

\* json.dumps(obj) / json.dump(obj, fp, indent=indent)
Dumps(v, indent) == Enc(v, indent, 0)

\* ---------------------------------------------------------- json decoder
\* The decoder follows json.decoder / json.scanner.  It covers objects,
\* arrays, strings with the escapes \" \\ \/ \n \t \r, integers and the
\* literals null, true, false; the artifacts of the model use nothing else.

\* a parse result: ok, the value, and the position after it
Fail == [ok |-> FALSE, v |-> JNull, p |-> 0]
Ok(v, p) == [ok |-> TRUE, v |-> v, p |-> p]

Digits == {"0", "1", "2", "3", "4", "5", "6", "7", "8", "9"}

\* json.decoder.WHITESPACE
IsWs(c) == c \in {" ", "\n", "\t", "\r"}

RECURSIVE SkipWs(_, _)
SkipWs(s, i) == IF i <= Len(s) /\ IsWs(s[i]) THEN SkipWs(s, i + 1) ELSE i

\* json.decoder.BACKSLASH
Unescape(c) ==
    CASE c = "\"" -> <<"\"">>
      [] c = "\\" -> <<"\\">>
      [] c = "/" -> <<"/">>
      [] c = "n" -> <<"\n">>
      [] c = "t" -> <<"\t">>
      [] c = "r" -> <<"\r">>
      [] OTHER -> <<>>

RECURSIVE ScanString(_, _, _)
\* json.decoder.py_scanstring, strict: i is the position after the opening
\* quote, acc the characters decoded so far
ScanString(s, i, acc) ==
    IF i > Len(s) THEN Fail
    ELSE IF s[i] = "\"" THEN Ok(JStr(acc), i + 1)
    ELSE IF s[i] = "\\" THEN
        IF i + 1 > Len(s) \/ Unescape(s[i + 1]) = <<>> THEN Fail
        ELSE ScanString(s, i + 2, acc \o Unescape(s[i + 1]))
    ELSE IF s[i] \in {"\n", "\t", "\r"} THEN Fail
    ELSE ScanString(s, i + 1, Append(acc, s[i]))

RECURSIVE ScanDigits(_, _)
ScanDigits(s, i) ==
    IF i <= Len(s) /\ s[i] \in Digits THEN ScanDigits(s, i + 1) ELSE i

\* json.scanner.NUMBER_RE, integer part: -?(0|[1-9][0-9]*), then int(token)
ScanNumber(s, i) ==
    LET j == IF s[i] = "-" THEN i + 1 ELSE i
        e == IF s[j] = "0" THEN j + 1 ELSE ScanDigits(s, j)
        token == SubSeq(s, i, e - 1)
    IN  IF j > Len(s) \/ s[j] \notin Digits THEN Fail
        ELSE Ok(JNum(IF token = <<"-", "0">> THEN <<"0">> ELSE token), e)

RECURSIVE ScanOnce(_, _), ScanMembers(_, _, _), ScanElements(_, _, _)

\* json.scanner.py_make_scanner._scan_once
ScanOnce(s, i) ==
    IF i > Len(s) THEN Fail
    ELSE CASE s[i] = "\"" -> ScanString(s, i + 1, <<>>)
           [] s[i] = "{" ->
                LET j == SkipWs(s, i + 1)
                IN  IF j <= Len(s) /\ s[j] = "}" THEN Ok(JObj(<<>>), j + 1)
                    ELSE ScanMembers(s, j, JObj(<<>>))
           [] s[i] = "[" ->
                LET j == SkipWs(s, i + 1)
                IN  IF j <= Len(s) /\ s[j] = "]" THEN Ok(JArr(<<>>), j + 1)
                    ELSE ScanElements(s, j, <<>>)
           [] StartsAt(s, i, <<"n", "u", "l", "l">>) -> Ok(JNull, i + 4)
           [] StartsAt(s, i, <<"t", "r", "u", "e">>) -> Ok(JTrue, i + 4)
           [] StartsAt(s, i, <<"f", "a", "l", "s", "e">>) -> Ok(JFalse, i + 5)
           [] s[i] \in Digits \cup {"-"} -> ScanNumber(s, i)
           [] OTHER -> Fail

\* json.decoder.JSONObject: the members from the key at j on; a repeated
\* key keeps its first position and takes the last value (dict(pairs))
ScanMembers(s, j, d) ==
    IF j > Len(s) \/ s[j] # "\"" THEN Fail
    ELSE LET key == ScanString(s, j + 1, <<>>)
             c == SkipWs(s, key.p)
             val == ScanOnce(s, SkipWs(s, c + 1))
             e == SkipWs(s, val.p)
             d2 == DictSet(d, key.v.s, val.v)
         IN  IF ~key.ok \/ c > Len(s) \/ s[c] # ":" THEN Fail
             ELSE IF ~val.ok \/ e > Len(s) THEN Fail
             ELSE IF s[e] = "}" THEN Ok(d2, e + 1)
             ELSE IF s[e] = "," THEN ScanMembers(s, SkipWs(s, e + 1), d2)
             ELSE Fail

\* json.decoder.JSONArray: the elements from position j on
ScanElements(s, j, items) ==
    LET val == ScanOnce(s, j)
        e == SkipWs(s, val.p)
    IN  IF ~val.ok \/ e > Len(s) THEN Fail
        ELSE IF s[e] = "]" THEN Ok(JArr(Append(items, val.v)), e + 1)
        ELSE IF s[e] = "," THEN
            ScanElements(s, SkipWs(s, e + 1), Append(items, val.v))
        ELSE Fail

\* json.loads(s): ok is FALSE where json.JSONDecodeError is raised
Loads(s) ==
    LET r == ScanOnce(s, SkipWs(s, 1))
    IN  IF r.ok /\ SkipWs(s, r.p) = Len(s) + 1 THEN r ELSE Fail

\* ------------------------------------------------------ Python text calls

RECURSIVE ReplaceFrom(_, _, _, _)
ReplaceFrom(s, i, old, new) ==
    IF i > Len(s) THEN <<>>
    ELSE IF StartsAt(s, i, old)
         THEN new \o ReplaceFrom(s, i + Len(old), old, new)
         ELSE <<s[i]>> \o ReplaceFrom(s, i + 1, old, new)

\* s.replace(old, new): every non-overlapping occurrence, left to right
Replace(s, old, new) == ReplaceFrom(s, 1, old, new)

\* the line boundaries of str.splitlines among the characters of the model
LineBreaks == {"\n", "\r", "\f"}

RECURSIVE SplitFrom(_, _, _)
SplitFrom(s, i, cur) ==
    IF i > Len(s) THEN (IF cur = <<>> THEN <<>> ELSE <<cur>>)
    ELSE IF s[i] = "\r" /\ i < Len(s) /\ s[i + 1] = "\n"
         THEN <<cur>> \o SplitFrom(s, i + 2, <<>>)
    ELSE IF s[i] \in LineBreaks THEN <<cur>> \o SplitFrom(s, i + 1, <<>>)
    ELSE SplitFrom(s, i + 1, Append(cur, s[i]))

\* s.splitlines(): the lines without their terminators; a final terminator
\* opens no empty last line
Splitlines(s) == SplitFrom(s, 1, <<>>)

RECURSIVE Nat2Str(_)
\* str(n) of a non-negative int
Nat2Str(n) ==
    LET d == <<"0", "1", "2", "3", "4", "5", "6", "7", "8", "9">>
    IN  IF n < 10 THEN <<d[n + 1]>> ELSE Nat2Str(n \div 10) \o <<d[(n % 10) + 1]>>

\* the index of the last "/" of a path, 0 when it has none
LastSlash(p) ==
    LET at == {i \in 1..Len(p) : p[i] = "/"}
    IN  IF at = {} THEN 0 ELSE CHOOSE i \in at : \A j \in at : j <= i

\* os.path.basename(p)
Basename(p) == SubSeq(p, LastSlash(p) + 1, Len(p))

\* os.path.dirname(p), for a path with a directory part
Dirname(p) == SubSeq(p, 1, LastSlash(p) - 1)

\* ---------------------------------------------------------- file system
\* fs maps the path of every regular file to its content, dirs is the set
\* of the directories.  Paths are the strings the programs build, relative
\* to the pipeline/ working directory.

SUFFIX == <<".", "a", "s", "t", ".", "j", "s", "o", "n">>
RawRoot == <<".", ".", "/", "o", "u", "t", "p", "u", "t", "s", "/", "r", "a", "w", "/">>
CombinedRoot == <<".", ".", "/", "o", "u", "t", "p", "u", "t", "s", "/", "c", "o", "m", "b", "i", "n", "e", "d", "/">>
FinalRoot == <<".", ".", "/", "o", "u", "t", "p", "u", "t", "s", "/", "f", "i", "n", "a", "l", "/">>
BundleName == <<"/", "b", "u", "n", "d", "l", "e", ".", "j", "s", "o", "n">>
ReportName == <<"/", "r", "e", "p", "o", "r", "t", ".", "h", "t", "m", "l">>

\* f"../outputs/raw/{repo_name}"
OutDir(repo) == RawRoot \o repo
\* f"../outputs/combined/{repo_name}"
CombinedDir(repo) == CombinedRoot \o repo
\* f"{combined_dir}/bundle.json"
BundlePath(repo) == CombinedDir(repo) \o BundleName
\* f"../outputs/final/{repo_name}"
OutputDir(repo) == FinalRoot \o repo
\* f"{output_dir}/report.html"
OutputPath(repo) == OutputDir(repo) \o ReportName

\* the text artifacts in the order the bundle literal opens them: the
\* bundle key and the file name under the raw directory
TextArtifacts ==
    << [key |-> <<"f", "i", "l", "e", "s">>, name |-> <<"/", "f", "i", "l", "e", "s", ".", "t", "x", "t">>],
       [key |-> <<"c", "a", "l", "l", "g", "r", "a", "p", "h">>, name |-> <<"/", "c", "f", "l", "o", "w", ".", "t", "x", "t">>],
       [key |-> <<"c", "t", "a", "g", "s">>, name |-> <<"/", "c", "t", "a", "g", "s", ".", "t", "x", "t">>],
       [key |-> <<"c", "l", "a", "n", "g", "_", "t", "i", "d", "y">>, name |-> <<"/", "c", "l", "a", "n", "g", "-", "t", "i", "d", "y", ".", "t", "x", "t">>],
       [key |-> <<"c", "p", "p", "c", "h", "e", "c", "k">>, name |-> <<"/", "c", "p", "p", "c", "h", "e", "c", "k", ".", "x", "m", "l">>],
       [key |-> <<"c", "o", "m", "p", "l", "e", "x", "i", "t", "y">>, name |-> <<"/", "c", "o", "m", "p", "l", "e", "x", "i", "t", "y", ".", "t", "x", "t">>] >>

FilesKey == <<"f", "i", "l", "e", "s">>
AstKey == <<"a", "s", "t">>

\* the directories os.makedirs(path, exist_ok=True) leaves in place: path
\* and each of its ancestors
Ancestors(path) ==
    {SubSeq(path, 1, i - 1) : i \in {j \in 1..Len(path) : path[j] = "/"}}
        \cup {path}

Makedirs(ds, path) == ds \cup Ancestors(path)

\* open(path).read() in text mode: "\r\n" and "\r" are read as "\n"
ReadText(content) ==
    IF \E i \in 1..Len(content) : content[i] = "\r"
    THEN Replace(Replace(content, <<"\r", "\n">>, <<"\n">>), <<"\r">>, <<"\n">>)
    ELSE content

\* glob.glob(f"{out_dir}/*.ast.json"): the files of the directory whose
\* name ends with the suffix; "*" matches no leading dot
Glob(files, dir) ==
    {p \in DOMAIN files :
        /\ LastSlash(p) > 0
        /\ Dirname(p) = dir
        /\ EndsWith(Basename(p), SUFFIX)
        /\ Basename(p)[1] # "."}

\* the orders in which a directory listing may return a set of paths
Orders(S) ==
    {q \in [1..Cardinality(S) -> S] : \A p \in S : \E i \in DOMAIN q : q[i] = p}

\* ---------------------------------------------------------------- state

VARIABLES
    fs,       \* path -> content of every regular file
    dirs,     \* the directories that exist
    bpc,      \* combine.py: position in main
    bargv,    \* combine.py: sys.argv
    bbundle,  \* combine.py: the bundle dict
    bglob,    \* combine.py: the paths the for loop has still to visit
    bexit,    \* combine.py: exit status of the process once bpc = "done"
    bout,     \* combine.py: the lines printed (stdout and traceback)
    rpc,      \* render_html.py: position in main
    rargv,    \* render_html.py: sys.argv
    rbundle,  \* render_html.py: the loaded bundle
    rexit,    \* render_html.py: exit status of the process once rpc = "done"
    rout,     \* render_html.py: the lines printed (stdout and traceback)
    \* combine.py run as several processes at once, each entry per process
    cpc,      \* position in main
    cargv,    \* sys.argv
    cbundle,  \* the bundle dict
    cglob,    \* the paths the for loop has still to visit
    cexit,    \* exit status once cpc is "done"
    cout,     \* the lines printed
    cbuf,     \* text json.dump has produced that the file object holds back
    cpos,     \* offset of the open bundle.json: the characters written so far
    creads,   \* the files and directories the process has read
    cwrites,  \* the files and directories the process has created or written
    clast     \* the process that wrote to a bundle.json last, 0 for none

fsVars == <<fs, dirs>>
bVars == <<bpc, bargv, bbundle, bglob, bexit, bout>>
rVars == <<rpc, rargv, rbundle, rexit, rout>>
cVars == <<cpc, cargv, cbundle, cglob, cexit, cout, cbuf, cpos, creads,
           cwrites, clast>>
vars == <<fs, dirs, bpc, bargv, bbundle, bglob, bexit, bout,
          rpc, rargv, rbundle, rexit, rout,
          cpc, cargv, cbundle, cglob, cexit, cout, cbuf, cpos, creads,
          cwrites, clast>>

\* a printed line: fixed text followed by a formatted value
Line(text, arg) == [text |-> text, arg |-> arg]

CombineScript == <<"c", "o", "m", "b", "i", "n", "e", ".", "p", "y">>
RenderScript == <<"r", "e", "n", "d", "e", "r", "_", "h", "t", "m", "l", ".", "p", "y">>

\* the processes of combine.py that run at once
Procs == {1, 2}

\* no process of combine.py has started
ProcsIdle ==
    /\ cpc = [p \in Procs |-> "idle"]
    /\ cargv = [p \in Procs |-> <<CombineScript>>]
    /\ cbundle = [p \in Procs |-> JNull]
    /\ cglob = [p \in Procs |-> <<>>]
    /\ cexit = [p \in Procs |-> 0]
    /\ cout = [p \in Procs |-> <<>>]
    /\ cbuf = [p \in Procs |-> <<>>]
    /\ cpos = [p \in Procs |-> 0]
    /\ creads = [p \in Procs |-> {}]
    /\ cwrites = [p \in Procs |-> {}]
    /\ clast = 0

\* ------------------------------------------------------------ combine.py

\* a sequence without the later repeats of its elements
Dedup(seq) ==
    LET keep == {i \in 1..Len(seq) : \A j \in 1..(i - 1) : seq[j] # seq[i]}
        Nth(k) == CHOOSE i \in keep : Cardinality({j \in keep : j < i}) = k - 1
    IN  [k \in 1..Cardinality(keep) |-> seq[Nth(k)]]

\* mutant of BundleLiteral: the lines of files.txt are deduplicated, as
\* list(dict.fromkeys(...)) would
BundleLiteralDedup(text) ==
    LET lines == Dedup(Splitlines(text[1]))
        files == JArr([i \in 1..Len(lines) |-> JStr(lines[i])])
        Member(i) ==
            [k |-> TextArtifacts[i].key,
             v |-> IF i = 1 THEN files ELSE JStr(text[i])]
    IN  JObj([i \in 1..Len(TextArtifacts) |-> Member(i)]
             \o <<[k |-> AstKey, v |-> JObj(<<>>)]>>)

\* bundle = {...}: the dict literal over the text artifacts already read
\* (text[i] is the content of TextArtifacts[i]), with an empty "ast"
BundleLiteral(text) ==
    LET lines == Splitlines(text[1])
        files == JArr([i \in 1..Len(lines) |-> JStr(lines[i])])
        Member(i) ==
            [k |-> TextArtifacts[i].key,
             v |-> IF i = 1 THEN files ELSE JStr(text[i])]
    IN  JObj([i \in 1..Len(TextArtifacts) |-> Member(i)]
             \o <<[k |-> AstKey, v |-> JObj(<<>>)]>>)

\* key = os.path.basename(f).replace(".ast.json", "")
AstKeyOf(f) == Replace(Basename(f), SUFFIX, <<>>)

\* bundle["ast"][key] = value
SetAst(bundle, key, value) ==
    DictSet(bundle, AstKey, DictSet(Get(bundle, AstKey, JNull), key, value))

\* print("Usage: python combine.py <repo_name>")
BuilderUsageLine == Line("Usage: python combine.py <repo_name>", <<>>)

\* an uncaught exception: the traceback names it, the status is 1
BuilderRaise(exc, arg) ==
    /\ bout' = Append(bout, Line(exc, arg))
    /\ bexit' = 1
    /\ bpc' = "done"

\* mutant of BuilderStart: os.makedirs runs before the argument check
BuilderStartMakedirsFirst(args) ==
    /\ bpc \in {"idle", "done"}
    /\ bargv' = <<CombineScript>> \o args
    /\ bbundle' = JNull
    /\ bglob' = <<>>
    /\ dirs' = IF args = <<>> THEN dirs ELSE Makedirs(dirs, CombinedDir(args[1]))
    /\ IF Len(bargv') # 2
       THEN /\ bout' = <<BuilderUsageLine>>
            /\ bexit' = 1
            /\ bpc' = "done"
       ELSE /\ bout' = <<>>
            /\ bexit' = 0
            /\ bpc' = "read"
    /\ UNCHANGED <<fs, rVars, cVars>>

\* lines 133-146: a run starts; the argument check, then
\* os.makedirs(combined_dir)
BuilderStart(args) ==
    /\ bpc \in {"idle", "done"}
    /\ bargv' = <<CombineScript>> \o args
    /\ bbundle' = JNull
    /\ bglob' = <<>>
    /\ IF Len(bargv') # 2
       THEN /\ bout' = <<BuilderUsageLine>>
            /\ bexit' = 1
            /\ bpc' = "done"
            /\ UNCHANGED dirs
       ELSE /\ bout' = <<>>
            /\ bexit' = 0
            /\ bpc' = "read"
            /\ dirs' = Makedirs(dirs, CombinedDir(bargv'[2]))
    /\ UNCHANGED <<fs, rVars, cVars>>

\* mutant of BuilderRead: a missing text artifact is skipped and its key
\* left out of the bundle
BuilderReadSkipMissing ==
    /\ bpc = "read"
    /\ LET out == OutDir(bargv[2])
           Path(i) == out \o TextArtifacts[i].name
           missing == {i \in 1..Len(TextArtifacts) : Path(i) \notin DOMAIN fs}
           text == [i \in 1..Len(TextArtifacts) |->
                       IF i \in missing THEN <<>> ELSE ReadText(fs[Path(i)])]
           skipped(m) == \E i \in missing : TextArtifacts[i].key = m.k
       IN  /\ bbundle' = JObj(SelectSeq(BundleLiteral(text).kids,
                                        LAMBDA m : ~skipped(m)))
           /\ \E q \in Orders(Glob(fs, out)) : bglob' = q
           /\ bpc' = "ast"
           /\ UNCHANGED <<bexit, bout>>
    /\ UNCHANGED <<fsVars, bargv, rVars, cVars>>

\* mutant of BuilderRead: bundle.json is opened for writing right after the
\* bundle literal, before the loop over the AST files
BuilderReadThenOpen ==
    /\ bpc = "read"
    /\ LET out == OutDir(bargv[2])
           Path(i) == out \o TextArtifacts[i].name
           missing == {i \in 1..Len(TextArtifacts) : Path(i) \notin DOMAIN fs}
           first == CHOOSE i \in missing : \A j \in missing : i <= j
           text == [i \in 1..Len(TextArtifacts) |-> ReadText(fs[Path(i)])]
       IN  IF missing # {}
           THEN /\ BuilderRaise("FileNotFoundError: ", Path(first))
                /\ UNCHANGED <<fs, bbundle, bglob>>
           ELSE /\ bbundle' = BundleLiteral(text)
                /\ \E q \in Orders(Glob(fs, out)) : bglob' = q
                /\ bpc' = "ast"
                /\ fs' = (BundlePath(bargv[2]) :> <<>>) @@ fs
                /\ UNCHANGED <<bexit, bout>>
    /\ UNCHANGED <<dirs, bargv, rVars, cVars>>

\* mutant of BuilderRead: the "ast" mapping starts from the one of the
\* bundle.json an earlier run left, as an incremental build would
BuilderReadMerge ==
    /\ bpc = "read"
    /\ LET out == OutDir(bargv[2])
           Path(i) == out \o TextArtifacts[i].name
           missing == {i \in 1..Len(TextArtifacts) : Path(i) \notin DOMAIN fs}
           first == CHOOSE i \in missing : \A j \in missing : i <= j
           text == [i \in 1..Len(TextArtifacts) |-> ReadText(fs[Path(i)])]
           old == IF BundlePath(bargv[2]) \in DOMAIN fs
                  THEN Loads(ReadText(fs[BundlePath(bargv[2])]))
                  ELSE Fail
           kept == IF old.ok /\ old.v.t = "obj"
                      /\ Get(old.v, AstKey, JNull).t = "obj"
                   THEN Get(old.v, AstKey, JNull)
                   ELSE JObj(<<>>)
       IN  IF missing # {}
           THEN /\ BuilderRaise("FileNotFoundError: ", Path(first))
                /\ UNCHANGED <<bbundle, bglob>>
           ELSE /\ bbundle' = DictSet(BundleLiteral(text), AstKey, kept)
                /\ \E q \in Orders(Glob(fs, out)) : bglob' = q
                /\ bpc' = "ast"
                /\ UNCHANGED <<bexit, bout>>
    /\ UNCHANGED <<fsVars, bargv, rVars, cVars>>

\* lines 150-167: the bundle literal reads the six text artifacts in order,
\* the first missing one raises; then glob.glob lists the AST files
BuilderRead ==
    /\ bpc = "read"
    /\ LET out == OutDir(bargv[2])
           Path(i) == out \o TextArtifacts[i].name
           missing == {i \in 1..Len(TextArtifacts) : Path(i) \notin DOMAIN fs}
           first == CHOOSE i \in missing : \A j \in missing : i <= j
           text == [i \in 1..Len(TextArtifacts) |-> ReadText(fs[Path(i)])]
       IN  IF missing # {}
           THEN /\ BuilderRaise("FileNotFoundError: ", Path(first))
                /\ UNCHANGED <<bbundle, bglob>>
           ELSE /\ bbundle' = BundleLiteral(text)
                /\ \E q \in Orders(Glob(fs, out)) : bglob' = q
                /\ bpc' = "ast"
                /\ UNCHANGED <<bexit, bout>>
    /\ UNCHANGED <<fsVars, bargv, rVars, cVars>>

\* lines 167-173: one iteration of the for loop; json.loads raises
\* json.JSONDecodeError on text that is not JSON, and nothing catches it
BuilderLoadAst ==
    /\ bpc = "ast"
    /\ bglob # <<>>
    /\ LET f == Head(bglob)
           parsed == Loads(ReadText(fs[f]))
       IN  IF ~parsed.ok
           THEN /\ BuilderRaise("json.decoder.JSONDecodeError: ", f)
                /\ UNCHANGED <<bbundle, bglob>>
           ELSE /\ bbundle' = SetAst(bbundle, AstKeyOf(f), parsed.v)
                /\ bglob' = Tail(bglob)
                /\ UNCHANGED <<bpc, bexit, bout>>
    /\ UNCHANGED <<fsVars, bargv, rVars, cVars>>

\* mutant of BuilderOpen: bundle.json is opened under the raw directory
BuilderOpenInOutDir ==
    /\ bpc = "ast"
    /\ bglob = <<>>
    /\ fs' = (OutDir(bargv[2]) \o BundleName :> <<>>) @@ fs
    /\ bpc' = "dump"
    /\ UNCHANGED <<dirs, bargv, bbundle, bglob, bexit, bout, rVars, cVars>>

\* line 177: open(f"{combined_dir}/bundle.json", "w") creates the file or
\* truncates it
BuilderOpen ==
    /\ bpc = "ast"
    /\ bglob = <<>>
    /\ fs' = (BundlePath(bargv[2]) :> <<>>) @@ fs
    /\ bpc' = "dump"
    /\ UNCHANGED <<dirs, bargv, bbundle, bglob, bexit, bout, rVars, cVars>>

\* indent=2 of json.dump
BundleIndent == 2

\* mutant of BuilderDump: the bundle is serialized as it was before the
\* AST loop
BuilderDumpBeforeLoop ==
    /\ bpc = "dump"
    /\ fs' = (BundlePath(bargv[2])
                 :> Dumps(DictSet(bbundle, AstKey, JObj(<<>>)), BundleIndent)) @@ fs
    /\ bout' = Append(bout, Line("[INFO] Bundle created at ", BundlePath(bargv[2])))
    /\ bpc' = "done"
    /\ UNCHANGED <<dirs, bargv, bbundle, bglob, bexit, rVars, cVars>>

\* lines 178-180: json.dump(bundle, f, indent=2), the file is closed, the
\* location is printed
BuilderDump ==
    /\ bpc = "dump"
    /\ fs' = (BundlePath(bargv[2]) :> Dumps(bbundle, BundleIndent)) @@ fs
    /\ bout' = Append(bout, Line("[INFO] Bundle created at ", BundlePath(bargv[2])))
    /\ bpc' = "done"
    /\ UNCHANGED <<dirs, bargv, bbundle, bglob, bexit, rVars, cVars>>

\* -------------------------------------------------------- render_html.py
\* html_content is a sequence of [src, ch]: ch is a character, or for a
\* stretch of the template that no formatted value reaches, the stretch as
\* one element; src is "tpl" for the template's own text and otherwise the
\* name of the formatted expression the character comes from.

Tpl(chars) == [i \in 1..Len(chars) |-> [src |-> "tpl", ch |-> chars[i]]]
From(src, chars) == [i \in 1..Len(chars) |-> [src |-> src, ch |-> chars[i]]]
Block(text) == <<[src |-> "tpl", ch |-> text]>>

\* the text written to report.html
TextOf(html) == [i \in 1..Len(html) |-> html[i].ch]

\* str(v) as an f-string formats a value loaded from JSON (not a container)
PyStr(v) ==
    CASE v.t = "str" -> v.s
      [] v.t = "num" -> v.s
      [] v.t = "null" -> <<"N", "o", "n", "e">>
      [] v.t = "true" -> <<"T", "r", "u", "e">>
      [] v.t = "false" -> <<"F", "a", "l", "s", "e">>

\* len(v) is defined for str, list and dict
HasLen(v) == v.t \in {"str", "arr", "obj"}
PyLen(v) == IF v.t = "str" THEN Len(v.s) ELSE Len(v.kids)

\* the values a for loop over v yields
Iter(v) ==
    CASE v.t = "arr" -> [i \in 1..Len(v.kids) |-> v.kids[i].v]
      [] v.t = "obj" -> [i \in 1..Len(v.kids) |-> JStr(v.kids[i].k)]
      [] v.t = "str" -> [i \in 1..Len(v.s) |-> JStr(<<v.s[i]>>)]

FileItemOpen == <<"<", "d", "i", "v", " ", "c", "l", "a", "s", "s", "=", "\"", "f", "i", "l", "e", "-", "i", "t", "e", "m", "\"", ">">>
FileItemClose == <<"<", "/", "d", "i", "v", ">">>
PreOpen == <<"<", "p", "r", "e", ">">>
PreClose == <<"<", "/", "p", "r", "e", ">">>
ScriptOpen == <<"<", "s", "c", "r", "i", "p", "t", ">">>
ScriptClose == <<"<", "/", "s", "c", "r", "i", "p", "t", ">">>

\* the <pre> sections of the template: bundle key, its name as an origin,
\* heading, default text
Sections ==
    << [key |-> <<"c", "a", "l", "l", "g", "r", "a", "p", "h">>, src |-> "callgraph", title |-> "Call Graph (cflow)",
        default |-> <<"N", "o", " ", "c", "a", "l", "l", " ", "g", "r", "a", "p", "h", " ", "d", "a", "t", "a">>],
       [key |-> <<"c", "t", "a", "g", "s">>, src |-> "ctags", title |-> "Symbol Tags (ctags)",
        default |-> <<"N", "o", " ", "c", "t", "a", "g", "s", " ", "d", "a", "t", "a">>],
       [key |-> <<"c", "l", "a", "n", "g", "_", "t", "i", "d", "y">>, src |-> "clang_tidy", title |-> "Static Warnings (clang-tidy)",
        default |-> <<"N", "o", " ", "c", "l", "a", "n", "g", "-", "t", "i", "d", "y", " ", "d", "a", "t", "a">>],
       [key |-> <<"c", "p", "p", "c", "h", "e", "c", "k">>, src |-> "cppcheck", title |-> "Code Quality (cppcheck)",
        default |-> <<"N", "o", " ", "c", "p", "p", "c", "h", "e", "c", "k", " ", "d", "a", "t", "a">>],
       [key |-> <<"c", "o", "m", "p", "l", "e", "x", "i", "t", "y">>, src |-> "complexity", title |-> "Complexity Metrics (lizard)",
        default |-> <<"N", "o", " ", "c", "o", "m", "p", "l", "e", "x", "i", "t", "y", " ", "d", "a", "t", "a">>] >>

\* {bundle.get(key, default)} inside <pre>...</pre>, lines 335-373
SectionHtml(bundle, sec) ==
    Block(sec.title)
    \o Tpl(PreOpen)
    \o (IF HasKey(bundle, sec.key)
        THEN From(sec.src, PyStr(Get(bundle, sec.key, JNull)))
        ELSE Tpl(sec.default))
    \o Tpl(PreClose)

\* ''.join(f'<div class="file-item">{f}</div>' for f in files), line 330
FileListHtml(files) ==
    Concat([i \in 1..Len(files) |->
               Tpl(FileItemOpen) \o From("files", PyStr(files[i]))
               \o Tpl(FileItemClose)])

\* generate_html_template(repo_name, bundle), for a bundle that is a dict
\* whose "files" and "ast" have a length
GenerateHtmlTemplate(repo_name, bundle) ==
    LET files == Get(bundle, FilesKey, JArr(<<>>))
        ast == Get(bundle, AstKey, JObj(<<>>))
        file_count == From("file_count", Nat2Str(PyLen(files)))
        ast_count == From("ast_count", Nat2Str(PyLen(ast)))
    IN  Block("<!DOCTYPE html>..<style>..</style>..Repository:")
        \o From("repo_name", repo_name)
        \o Block("Generated:")
        \o <<[src |-> "timestamp", ch |-> "%Y-%m-%d %H:%M:%S"]>>
        \o Block("Total Files") \o file_count
        \o Block("AST Dumps") \o ast_count
        \o Block("Analysis Tools 7")
        \o Block("File List (") \o file_count \o Block(" files)")
        \o FileListHtml(Iter(files))
        \o Concat([i \in 1..Len(Sections) |-> SectionHtml(bundle, Sections[i])])
        \o Block("AST Explorer (") \o ast_count \o Block(" files)")
        \o Block("AST data available for ") \o ast_count
        \o Block(" C files. <button onclick=console.log(astData)>")
        \o Tpl(ScriptOpen)
        \o Block("const astData = ")
        \o From("ast", Dumps(ast, NoIndent))
        \o Block("; collapsibles.forEach(..)")
        \o Tpl(ScriptClose)
        \o Block("</body></html>")

\* mutant of Renderable: the fields are read as bundle[key], which needs
\* every key
RenderableAllKeys(bundle) ==
    /\ bundle.t = "obj"
    /\ HasKey(bundle, FilesKey) /\ HasLen(Get(bundle, FilesKey, JNull))
    /\ HasKey(bundle, AstKey) /\ HasLen(Get(bundle, AstKey, JNull))
    /\ \A i \in 1..Len(Sections) : HasKey(bundle, Sections[i].key)

\* bundle.get needs a dict, len() a str, list or dict
Renderable(bundle) ==
    /\ bundle.t = "obj"
    /\ HasLen(Get(bundle, FilesKey, JArr(<<>>)))
    /\ HasLen(Get(bundle, AstKey, JObj(<<>>)))

\* the argument of sys.exit at line 410, line 434 and line 440
UsageExit == 1
MissingBundleExit == 1
MalformedBundleExit == 1

\* mutant of RenderFail: the statuses of the failures after the argument
\* check are moved up by one
RenderFailNextStatus(lines, status) ==
    /\ rout' = rout \o lines
    /\ rexit' = status + 1
    /\ rpc' = "done"

\* the process ends with status `status` after printing `lines`
RenderFail(lines, status) ==
    /\ rout' = rout \o lines
    /\ rexit' = status
    /\ rpc' = "done"

UsageLine == Line("Usage: python render_html.py <repo_name>", <<>>)
NotFoundLine(path) == Line("ERROR: Bundle not found at ", path)
InvalidLine == Line("ERROR: Invalid JSON in bundle: ", <<>>)
\* print(f"  python combine.py {repo_name}")
RerunLine(repo) == Line("  python combine.py ", repo)

\* lines 408-422: the argument check, then os.makedirs(output_dir)
RenderStart(args) ==
    /\ rpc \in {"idle", "done"}
    /\ rargv' = <<RenderScript>> \o args
    /\ rbundle' = JNull
    /\ IF Len(rargv') # 2
       THEN /\ rout' = <<UsageLine>>
            /\ rexit' = UsageExit
            /\ rpc' = "done"
            /\ UNCHANGED dirs
       ELSE /\ rout' = <<>>
            /\ rexit' = 0
            /\ rpc' = "load"
            /\ dirs' = Makedirs(dirs, OutputDir(rargv'[2]))
    /\ UNCHANGED <<fs, bVars, cVars>>

\* mutant of RenderLoad: a bundle that is not JSON is taken as an empty
\* bundle and rendered
RenderLoadLenient ==
    /\ rpc = "load"
    /\ LET repo == rargv[2]
           path == BundlePath(repo)
           parsed == Loads(ReadText(fs[path]))
       IN  IF path \notin DOMAIN fs
           THEN /\ RenderFail(<<NotFoundLine(path),
                                Line("", <<>>),
                                Line("Run combine.py first:", <<>>),
                                RerunLine(repo)>>, MissingBundleExit)
                /\ UNCHANGED rbundle
           ELSE /\ rbundle' = IF parsed.ok THEN parsed.v ELSE JObj(<<>>)
                /\ rpc' = "generate"
                /\ UNCHANGED <<rexit, rout>>
    /\ UNCHANGED <<fsVars, rargv, bVars, cVars>>

\* lines 426-440: json.load of bundle.json with the two handlers
RenderLoad ==
    /\ rpc = "load"
    /\ LET repo == rargv[2]
           path == BundlePath(repo)
           parsed == Loads(ReadText(fs[path]))
       IN  IF path \notin DOMAIN fs
           THEN /\ RenderFail(<<NotFoundLine(path),
                                Line("", <<>>),
                                Line("Run combine.py first:", <<>>),
                                RerunLine(repo)>>, MissingBundleExit)
                /\ UNCHANGED rbundle
           ELSE IF ~parsed.ok
           THEN /\ RenderFail(<<InvalidLine,
                                Line("", <<>>),
                                Line("Bundle may be corrupted. Re-run combine.py:", <<>>),
                                RerunLine(repo)>>, MalformedBundleExit)
                /\ UNCHANGED rbundle
           ELSE /\ rbundle' = parsed.v
                /\ rpc' = "generate"
                /\ UNCHANGED <<rexit, rout>>
    /\ UNCHANGED <<fsVars, rargv, bVars, cVars>>

\* html_content of line 444, each character with its origin, once the
\* bundle is loaded
HtmlContent == GenerateHtmlTemplate(rargv[2], rbundle)

\* line 444: generate_html_template(repo_name, bundle) returns, or raises
\* on a bundle that is no dict or whose "files" or "ast" has no length
RenderGenerate ==
    /\ rpc = "generate"
    /\ IF Renderable(rbundle)
       THEN /\ rpc' = "write"
            /\ UNCHANGED <<rexit, rout>>
       ELSE RenderFail(<<Line(IF rbundle.t = "obj" THEN "TypeError: "
                             ELSE "AttributeError: ", <<>>)>>, 1)
    /\ UNCHANGED <<fsVars, rargv, rbundle, bVars, cVars>>

\* lines 448-452: report.html is written in one write, its place printed
RenderWrite ==
    /\ rpc = "write"
    /\ fs' = (OutputPath(rargv[2]) :> TextOf(HtmlContent)) @@ fs
    /\ rout' = rout \o <<Line("[INFO] HTML report created at ", OutputPath(rargv[2])),
                         Line("[INFO] Open in browser: file://", OutputPath(rargv[2]))>>
    /\ rpc' = "done"
    /\ UNCHANGED <<dirs, rargv, rbundle, rexit, bVars, cVars>>

\* ------------------------------------------------------- initial states
\* The programs start from what run_static.sh and earlier runs left behind.

Repos == {<<"z", "l", "i", "b">>, <<"s", "s", "l">>}

\* the repository run_static.sh has analysed; the other one has no files
Analysed == <<"z", "l", "i", "b">>

\* sys.argv[1:]: none, one or two arguments
ArgLists ==
    {<<>>} \cup {<<r>> : r \in Repos} \cup {<<Analysed, r>> : r \in Repos \ {Analysed}}

File(path, content) == [path |-> path, content |-> content]

\* the function path -> content of a set of files with distinct paths
FsOf(entries) ==
    [p \in {e.path : e \in entries} |->
        (CHOOSE e \in entries : e.path = p).content]

\* contents of files.txt: sorted, unsorted with a repeated line and no
\* final newline, empty
FilesTxtChoices ==
    {<<"a", ".", "c", "\n", "b", ".", "c", "\n">>, <<"b", ".", "c", "\n", "a", ".", "c", "\n", "b", ".", "c">>, <<>>}

\* contents of cflow.txt, ctags.txt, clang-tidy.txt, cppcheck.xml,
\* complexity.txt: tool output with markup characters, and without
TextChoices ==
    {<<<<"a", "-", ">", "b">>, <<"f", "\t", "x", ".", "c">>, <<"<", "a", ".", "h", ">", " ", "&", " ", "\"", "b", "\"", "\n">>, <<"<", "r", "/", ">">>, <<>>>>,
     <<<<"a", " ", "b">>, <<"f">>, <<>>, <<"r">>, <<"1", "\n">>>>}

\* the *.ast.json files a raw directory may hold: a nested document, text
\* that is not JSON, a name holding the suffix twice, a document with the
\* text that closes a script element, and a hidden file
AstFiles ==
    {File(<<"/", "a", ".", "c", ".", "a", "s", "t", ".", "j", "s", "o", "n">>, <<"{", "\"", "t", "y", "p", "e", "\"", ":", " ", "\"", "T", "U", "\"", ",", " ", "\"", "i", "n", "n", "e", "r", "\"", ":", " ", "[", "{", "\"", "i", "d", "\"", ":", " ", "-", "0", "}", ",", " ", "\"", "q", "\\", "\"", "\\", "\\", "n", "\"", "]", "}">>),
     File(<<"/", "b", ".", "c", ".", "a", "s", "t", ".", "j", "s", "o", "n">>, <<"{", "\"", "t", "y", "p", "e", "\"", ":", " ">>),
     File(<<"/", "a", ".", "a", "s", "t", ".", "j", "s", "o", "n", ".", "c", ".", "a", "s", "t", ".", "j", "s", "o", "n">>, <<"[", "1", ",", " ", "n", "u", "l", "l", "]">>),
     File(<<"/", "s", ".", "a", "s", "t", ".", "j", "s", "o", "n">>, <<"{", "\"", "<", "/", "s", "c", "r", "i", "p", "t", ">", "\"", ":", " ", "\"", "<", "/", "s", "c", "r", "i", "p", "t", ">", "<", "b", ">", "\"", "}", "\n">>),
     File(<<"/", ".", "h", ".", "a", "s", "t", ".", "j", "s", "o", "n">>, <<"t", "r", "u", "e">>)}

\* AST files held by one raw directory
MaxAstFiles == 2

AstChoices == {S \in SUBSET AstFiles : Cardinality(S) <= MaxAstFiles}

\* a raw directory: files.txt, the five tool outputs and the AST files,
\* without the text artifact number `missing` (0: all are there)
RawDir(repo, filesTxt, text, asts, missing) ==
    LET content == <<filesTxt>> \o text
    IN  {File(OutDir(repo) \o TextArtifacts[i].name, content[i]) :
             i \in (1..Len(TextArtifacts)) \ {missing}}
        \cup {File(OutDir(repo) \o a.path, a.content) : a \in asts}

PlainText == CHOOSE t \in TextChoices : t[1] = <<"a", "-", ">", "b">>
PlainFiles == <<"a", ".", "c", "\n", "b", ".", "c", "\n">>

\* the raw directories of the model: every set of AST files; every
\* files.txt with every tool output; each text artifact missing in turn;
\* no raw directory at all
RawDirs(repo) ==
    {RawDir(repo, PlainFiles, PlainText, S, 0) : S \in AstChoices}
    \cup {RawDir(repo, f, t, {}, 0) : f \in FilesTxtChoices, t \in TextChoices}
    \cup {RawDir(repo, PlainFiles, PlainText, {}, m) :
              m \in 1..Len(TextArtifacts)}
    \cup {{}}

\* what an earlier run may have left as bundle.json: nothing, a truncated
\* document, a document of an older layout, a document that is no object,
\* an object without keys, an object with two of the keys
OldBundles(repo) ==
    {{},
     {File(BundlePath(repo), <<"{", "\n", " ", " ", "\"", "f", "i", "l", "e", "s", "\"", ":", " ", "[">>)},
     {File(BundlePath(repo), <<"{", "\"", "f", "i", "l", "e", "s", "\"", ":", " ", "[", "\"", "o", "l", "d", ".", "c", "\"", "]", ",", " ", "\"", "a", "s", "t", "\"", ":", " ", "{", "\"", "o", "l", "d", ".", "c", "\"", ":", " ", "1", "}", "}">>)},
     {File(BundlePath(repo), <<"[", "]">>)},
     {File(BundlePath(repo), <<"{", "}">>)},
     {File(BundlePath(repo), <<"{", "\"", "f", "i", "l", "e", "s", "\"", ":", " ", "[", "\"", "x", ".", "c", "\"", "]", ",", " ", "\"", "c", "t", "a", "g", "s", "\"", ":", " ", "\"", "t", "\"", "}">>)}}

OldReports(repo) ==
    {{}, {File(OutputPath(repo), <<"<", "h", "t", "m", "l", ">", "o", "l", "d", "<", "/", "h", "t", "m", "l", ">">>)}}

\* the AST file of the model whose content is not JSON
BadAst == {a \in AstFiles : ~Loads(a.content).ok}

\* the files at the start: a raw directory with no earlier output, or
\* earlier output beside a plain raw directory, one with an AST file that
\* is not JSON, or none
Starts ==
    RawDirs(Analysed)
    \cup {raw \cup old \cup rep :
              raw \in {{}, RawDir(Analysed, PlainFiles, PlainText, {}, 0),
                       RawDir(Analysed, PlainFiles, PlainText, BadAst, 0)},
              old \in OldBundles(Analysed),
              rep \in OldReports(Analysed)}

\* the directories that hold a set of files
DirsOf(entries) == UNION {Ancestors(Dirname(e.path)) : e \in entries}

Init ==
    /\ \E entries \in Starts :
           /\ fs = FsOf(entries)
           /\ dirs = DirsOf(entries) \cup {<<".", ".">>}
    /\ bpc = "idle"
    /\ bargv = <<CombineScript>>
    /\ bbundle = JNull
    /\ bglob = <<>>
    /\ bexit = 0
    /\ bout = <<>>
    /\ rpc = "idle"
    /\ rargv = <<RenderScript>>
    /\ rbundle = JNull
    /\ rexit = 0
    /\ rout = <<>>
    /\ ProcsIdle

Next ==
    \/ \E args \in ArgLists : BuilderStart(args)
    \/ BuilderRead
    \/ BuilderLoadAst
    \/ BuilderOpen
    \/ BuilderDump
    \/ \E args \in ArgLists : RenderStart(args)
    \/ RenderLoad
    \/ RenderGenerate
    \/ RenderWrite

Spec == Init /\ [][Next]_vars

\* ------------------------------------------------------------ properties

\* a run of combine.py / render_html.py with a repository argument has
\* ended with status 0
BuilderOk == bpc = "done" /\ Len(bargv) = 2 /\ bexit = 0
RenderOk == rpc = "done" /\ Len(rargv) = 2 /\ rexit = 0

InSeq(x, s) == \E i \in 1..Len(s) : s[i] = x

\* the text artifacts the raw directory of a repository lacks
MissingText(repo) ==
    {i \in 1..Len(TextArtifacts) :
        OutDir(repo) \o TextArtifacts[i].name \notin DOMAIN fs}

\* the discovered AST files whose content is not JSON
Malformed(repo) ==
    {f \in Glob(fs, OutDir(repo)) : ~Loads(ReadText(fs[f])).ok}

\* a file name without its trailing ".ast.json"
StripSuffix(name) == SubSeq(name, 1, Len(name) - Len(SUFFIX))

\* C1: when one discovered *.ast.json file is not JSON (and no text
\* artifact is missing), the build ends with status 0, bundle.json is
\* written, the entry of the malformed file is an error placeholder with
\* the file's path, and every other AST entry and every text field is
\* what the artifacts hold.
C1_MalformedAstIsolated ==
    (/\ bpc = "done"
     /\ Len(bargv) = 2
     /\ MissingText(bargv[2]) = {}
     /\ Malformed(bargv[2]) # {})
    => LET repo == bargv[2]
           written == Loads(ReadText(fs[BundlePath(repo)]))
           ast == Get(written.v, AstKey, JNull)
           text == [i \in 1..Len(TextArtifacts) |->
                       ReadText(fs[OutDir(repo) \o TextArtifacts[i].name])]
           Entry(f) == Get(ast, StripSuffix(Basename(f)), JNull)
       IN  /\ bexit = 0
           /\ BundlePath(repo) \in DOMAIN fs
           /\ written.ok
           /\ \A f \in Malformed(repo) :
                 /\ Entry(f).t = "obj"
                 /\ HasKey(Entry(f), <<"e", "r", "r", "o", "r">>)
                 /\ Get(Entry(f), <<"p", "a", "t", "h">>, JNull) = JStr(f)
           /\ \A f \in Glob(fs, OutDir(repo)) \ Malformed(repo) :
                 Entry(f) = Loads(ReadText(fs[f])).v
           /\ \A i \in 1..Len(TextArtifacts) :
                 Get(written.v, TextArtifacts[i].key, JNull)
                     = Get(BundleLiteral(text), TextArtifacts[i].key, JNull)

\* the origins that are bundle text fields
TextFieldSrc ==
    {"files"} \cup {Sections[i].src : i \in 1..Len(Sections)}

\* the character references an escaped "&", "<", ">", quote may be written as
Entities ==
    {<<"&", "a", "m", "p", ";">>, <<"&", "l", "t", ";">>, <<"&", "g", "t", ";">>, <<"&", "q", "u", "o", "t", ";">>, <<"&", "#", "x", "2", "7", ";">>, <<"&", "#", "3", "9", ";">>}

\* C2: in the generated document no "<" or ">" comes from a bundle text
\* field, and every "&" that comes from one starts a character reference.
C2_TextFieldsEscaped ==
    RenderOk =>
        LET html == HtmlContent
            text == TextOf(html)
        IN  \A i \in 1..Len(html) :
                html[i].src \in TextFieldSrc =>
                    /\ html[i].ch \notin {"<", ">"}
                    /\ html[i].ch = "&" =>
                           \E e \in Entities : StartsAt(text, i, e)

\* C3: in the generated document the first "</script>" after the template's
\* "<script>" is the template's own closing tag, none that comes from the
\* embedded AST mapping.
C3_ScriptClosedByTemplate ==
    RenderOk =>
        LET html == HtmlContent
            text == TextOf(html)
            open == CHOOSE i \in 1..Len(html) :
                        StartsAt(text, i, ScriptOpen) /\ html[i].src = "tpl"
            closes == {i \in open..Len(html) : StartsAt(text, i, ScriptClose)}
            first == CHOOSE i \in closes : \A j \in closes : i <= j
        IN  \A k \in 0..(Len(ScriptClose) - 1) : html[first + k].src = "tpl"

\* the file-item entries of a document, in document order: the text of
\* each <div class="file-item"> element, up to the next </div>
FileItems(text) ==
    LET opens == {i \in 1..Len(text) : StartsAt(text, i, FileItemOpen)}
        Nth(k) == CHOOSE i \in opens : Cardinality({j \in opens : j < i}) = k - 1
        Item(k) ==
            LET s == Nth(k) + Len(FileItemOpen)
                ends == {j \in s..Len(text) : StartsAt(text, j, FileItemClose)}
                e == CHOOSE j \in ends : \A m \in ends : j <= m
            IN  SubSeq(text, s, e - 1)
    IN  [k \in 1..Cardinality(opens) |-> Item(k)]

RECURSIVE NewlineLinesFrom(_, _, _)
NewlineLinesFrom(s, i, cur) ==
    IF i > Len(s) THEN (IF cur = <<>> THEN <<>> ELSE <<cur>>)
    ELSE IF s[i] = "\n" THEN <<cur>> \o NewlineLinesFrom(s, i + 1, <<>>)
    ELSE NewlineLinesFrom(s, i + 1, Append(cur, s[i]))

\* the lines of a text file: its stretches without a newline, each ended
\* by a newline or by the end of the file
NewlineLines(s) == NewlineLinesFrom(s, 1, <<>>)

\* both commands have ended with status 0 for `repo`, and the renderer
\* loaded the bundle.json that is there
BuiltAndRendered(repo) ==
    /\ BuilderOk
    /\ bargv[2] = repo
    /\ RenderOk
    /\ rargv[2] = repo
    /\ Loads(ReadText(fs[BundlePath(repo)])).v = rbundle

FilesTxt(repo) == fs[OutDir(repo) \o TextArtifacts[1].name]

\* C4: once a repository is built and rendered, the file-item entries of
\* report.html are the lines of files.txt, in their order, each once per
\* line.
C4_FileOrderEndToEnd ==
    \A repo \in Repos :
        BuiltAndRendered(repo) =>
            FileItems(fs[OutputPath(repo)]) = NewlineLines(FilesTxt(repo))

\* C4 witness: a files.txt that is unsorted and repeats a line was built and
\* rendered.
C4_Witness ==
    \E repo \in Repos :
        /\ BuiltAndRendered(repo)
        /\ FilesTxt(repo) = <<"b", ".", "c", "\n", "a", ".", "c", "\n", "b", ".", "c">>
        /\ FileItems(fs[OutputPath(repo)]) = <<<<"b", ".", "c">>, <<"a", ".", "c">>, <<"b", ".", "c">>>>

\* C5: the bundle the renderer loads from bundle.json, once the builder has
\* ended with status 0 for the same repository, is the bundle dict the
\* builder assembled.
C5_RoundTrip ==
    [][(/\ rpc = "load"
        /\ rpc' = "generate"
        /\ BuilderOk
        /\ bargv[2] = rargv[2])
       => rbundle' = bbundle]_vars

\* C5 witness: the renderer has loaded a bundle with text that needs
\* escaping and a nested AST entry, after the builder ended.
C5_Witness ==
    /\ rpc = "generate"
    /\ BuilderOk
    /\ bargv[2] = rargv[2]
    /\ rbundle = bbundle
    /\ Get(bbundle, <<"c", "l", "a", "n", "g", "_", "t", "i", "d", "y">>, JNull) = JStr(<<"<", "a", ".", "h", ">", " ", "&", " ", "\"", "b", "\"", "\n">>)
    /\ \E i \in 1..Len(Get(bbundle, AstKey, JNull).kids) :
           LET v == Get(bbundle, AstKey, JNull).kids[i].v
           IN  v.t = "obj" /\ \E j \in 1..Len(v.kids) : v.kids[j].v.t = "arr"

\* C6: a run of either command with a wrong number of arguments ends at
\* once with status 1 after the usage line, and creates or changes no
\* directory and no file.
C6_UsageErrorWritesNothing ==
    [][/\ (bpc \in {"idle", "done"} /\ bVars' # bVars /\ Len(bargv') # 2)
           => /\ bpc' = "done"
              /\ bexit' = 1
              /\ bout' = <<BuilderUsageLine>>
              /\ fs' = fs
              /\ dirs' = dirs
       /\ (rpc \in {"idle", "done"} /\ rVars' # rVars /\ Len(rargv') # 2)
           => /\ rpc' = "done"
              /\ rexit' = 1
              /\ rout' = <<UsageLine>>
              /\ fs' = fs
              /\ dirs' = dirs]_vars

\* C6 witness: both commands have ended on a usage error, one with no
\* argument and one with two, and no output directory exists.
C6_Witness ==
    /\ bpc = "done" /\ Len(bargv) = 1 /\ bexit = 1
    /\ rpc = "done" /\ Len(rargv) = 3 /\ rexit = 1
    /\ \A r \in Repos : CombinedDir(r) \notin dirs /\ OutputDir(r) \notin dirs

\* C7: a renderer run that finds bundle.json missing or not JSON ends with
\* a non-zero status after printing the builder command for its repository,
\* and no step of the run before the write of report.html changes a file.
C7_BadBundleFatal ==
    [][/\ (/\ rpc = "load"
           /\ rVars' # rVars
           /\ \/ BundlePath(rargv[2]) \notin DOMAIN fs
              \/ ~Loads(ReadText(fs[BundlePath(rargv[2])])).ok)
           => /\ rpc' = "done"
              /\ rexit' # 0
              /\ InSeq(RerunLine(rargv[2]), rout')
       /\ (rpc # "write" /\ rVars' # rVars) => fs' = fs]_vars

\* C7 witness: the renderer has ended on a bundle that is not JSON, and the
\* report of an earlier run is still as it was.
C7_Witness ==
    /\ rpc = "done"
    /\ rexit = 1
    /\ Len(rargv) = 2
    /\ InSeq(InvalidLine, rout)
    /\ InSeq(RerunLine(rargv[2]), rout)
    /\ OutputPath(rargv[2]) \in DOMAIN fs
    /\ fs[OutputPath(rargv[2])] = <<"<", "h", "t", "m", "l", ">", "o", "l", "d", "<", "/", "h", "t", "m", "l", ">">>

\* the category of the fatal error a renderer run has ended on
Category ==
    IF rpc # "done" \/ rout = <<>> THEN "none"
    ELSE IF rout[1] = UsageLine THEN "usage"
    ELSE IF rout[1].text = NotFoundLine(<<>>).text THEN "missing"
    ELSE IF rout[1] = InvalidLine THEN "malformed"
    ELSE "none"

Categories == {"usage", "missing", "malformed"}

\* the status the code gives each category
ExitOf(c) ==
    CASE c = "usage" -> UsageExit
      [] c = "missing" -> MissingBundleExit
      [] c = "malformed" -> MalformedBundleExit

\* C8, as claimed: the status a renderer run ends with on a fatal error is
\* the status of no other category.
C8_DistinctExitCodes ==
    Category \in Categories =>
        \A c \in Categories \ {Category} : rexit # ExitOf(c)

\* C8, amended: a renderer run that ends on a usage error, a missing bundle
\* or a malformed bundle ends with status 1, and a run that writes the
\* report with status 0; the status tells failure from success, the
\* category is told by the message.
C8_FatalExitIsOne ==
    /\ Category \in Categories => rexit = 1
    /\ (rpc = "done" /\ rout # <<>>
            /\ rout[1].text = "[INFO] HTML report created at ") => rexit = 0

\* C8 witness: a run has ended on a missing bundle.
C8_Witness == Category = "missing" /\ rexit = 1 /\ Len(rargv) = 2

BundleKeys ==
    [i \in 1..Len(TextArtifacts) |-> TextArtifacts[i].key] \o <<AstKey>>

\* C9: every step of the builder that changes a file changes only the
\* bundle.json of its repository, to the empty file just opened or to a
\* JSON object with the seven keys; and with a text artifact missing the
\* builder changes no file and ends with status 1, naming the file.
C9_WrittenBundleHasAllKeys ==
    [][(bVars' # bVars) =>
          /\ fs' # fs =>
                LET p == BundlePath(bargv[2])
                IN  /\ DOMAIN fs' = DOMAIN fs \cup {p}
                    /\ \A q \in DOMAIN fs : q # p => fs'[q] = fs[q]
                    /\ \A content \in {fs'[p]} :
                          \/ content = <<>>
                          \/ LET doc == Loads(ReadText(content))
                             IN  /\ doc.ok
                                 /\ doc.v.t = "obj"
                                 /\ Keys(doc.v) = BundleKeys
                    /\ MissingText(bargv[2]) = {}
          /\ (Len(bargv') = 2 /\ MissingText(bargv'[2]) # {}) =>
                /\ fs' = fs
                /\ bpc' \in {"read", "done"}
                /\ bpc' = "done" =>
                      /\ bexit' = 1
                      /\ \E i \in MissingText(bargv'[2]) :
                            InSeq(Line("FileNotFoundError: ",
                                       OutDir(bargv'[2]) \o TextArtifacts[i].name),
                                  bout')]_vars

\* C9 witness: the builder has written a bundle.json with the seven keys
\* from a raw directory whose complexity.txt is empty.
C9_Witness ==
    /\ BuilderOk
    /\ Keys(Loads(ReadText(fs[BundlePath(bargv[2])])).v) = BundleKeys
    /\ Get(bbundle, <<"c", "o", "m", "p", "l", "e", "x", "i", "t", "y">>, JNull) = JStr(<<>>)

\* C10: once the for loop has visited every discovered file, the `ast`
\* mapping has, for each of them, the key that is the file's base name
\* without its trailing ".ast.json".
C10_KeyIsNameWithoutSuffix ==
    (bpc = "ast" /\ bglob = <<>>) =>
        \A f \in Glob(fs, OutDir(bargv[2])) :
            HasKey(Get(bbundle, AstKey, JNull), StripSuffix(Basename(f)))

\* C11: once the loop over the discovered AST files has ended, the "ast"
\* mapping of the bundle has as many keys as the raw directory has files
\* matching *.ast.json.
C11_OneEntryPerAstFile ==
    (bpc \in {"dump", "done"} /\ Len(bargv) = 2 /\ bexit = 0)
    => PyLen(Get(bbundle, AstKey, JNull))
           = Cardinality(Glob(fs, OutDir(bargv[2])))

\* the place of the template's <script> in a document
ScriptStart(html) ==
    CHOOSE i \in 1..Len(html) :
        StartsAt(TextOf(html), i, ScriptOpen) /\ html[i].src = "tpl"

\* C12: the generated document shows, before the inline script, one entry
\* per key of the bundle's "ast" mapping: the key and the pretty-printed
\* JSON of its value, both taken from the AST data.
C12_AstEntryPerKey ==
    RenderOk =>
        LET html == HtmlContent
            text == TextOf(html)
            ast == Get(rbundle, AstKey, JObj(<<>>))
            Shown(i, chars) ==
                /\ StartsAt(text, i, chars)
                /\ \A k \in 0..(Len(chars) - 1) : html[i + k].src = "ast"
        IN  \A m \in 1..Len(ast.kids) :
                \E i, j \in 1..(ScriptStart(html) - 1) :
                    /\ i < j
                    /\ Shown(i, ast.kids[m].k)
                    /\ Shown(j, Dumps(ast.kids[m].v, BundleIndent))

\* the files and directories under the raw artifact root
RawFiles(files) == {p \in DOMAIN files : StartsAt(p, 1, RawRoot)}
RawSubDirs(ds) == {d \in ds : StartsAt(d, 1, RawRoot)}

\* the bundle.json of `repo` is the same file, or the same absence, in the
\* file systems f and g
SameBundle(f, g, repo) ==
    LET p == BundlePath(repo)
    IN  /\ (p \in DOMAIN f) = (p \in DOMAIN g)
        /\ p \in DOMAIN f => f[p] = g[p]

\* C16: no step of the builder, of a run that succeeds or fails, creates,
\* deletes or changes a file or directory under the raw artifact root, and
\* no step of the renderer creates, deletes or changes a bundle.json.
C16_InputsOnlyRead ==
    [][/\ (bVars' # bVars) =>
              /\ RawFiles(fs') = RawFiles(fs)
              /\ \A p \in RawFiles(fs) : fs'[p] = fs[p]
              /\ RawSubDirs(dirs') = RawSubDirs(dirs)
       /\ (rVars' # rVars) =>
              \A r \in Repos : SameBundle(fs, fs', r)]_vars

\* C16 witness: a builder run has failed on an AST file that is not JSON,
\* a renderer run has written the report from the bundle.json an earlier
\* run left, and the raw directory and that bundle.json are still there.
C16_Witness ==
    /\ bpc = "done" /\ Len(bargv) = 2 /\ bexit = 1
    /\ Malformed(bargv[2]) # {}
    /\ RenderOk
    /\ rargv[2] = bargv[2]
    /\ BundlePath(rargv[2]) \in DOMAIN fs
    /\ Loads(ReadText(fs[BundlePath(rargv[2])])).v = rbundle
    /\ OutputPath(rargv[2]) \in DOMAIN fs
    /\ fs[OutputPath(rargv[2])] = TextOf(HtmlContent)

\* C17: the builder changes no file while it reads the text artifacts and
\* parses the AST files; the step that opens bundle.json comes when the loop
\* has visited every file; a run ends with a failure status only from
\* before that step; and the step after it writes the whole bundle and ends
\* the run with status 0.
C17_BundleOpenedAfterInputs ==
    [][(bVars' # bVars) =>
          /\ (bpc \in {"idle", "done", "read"} \/ (bpc = "ast" /\ bglob # <<>>))
                 => fs' = fs
          /\ (bpc' = "done" /\ bexit' # 0)
                 => (bpc \in {"idle", "done", "read"} \/ (bpc = "ast" /\ bglob # <<>>))
          /\ bpc = "dump" =>
                 /\ bpc' = "done"
                 /\ bexit' = 0
                 /\ \A content \in {fs'[BundlePath(bargv[2])]} :
                        LET doc == Loads(ReadText(content))
                        IN  doc.ok /\ doc.v = bbundle]_vars

\* C17 witness: a run has failed on an AST file that is not JSON and the
\* bundle.json of the older layout that was there before is as it was.
C17_Witness ==
    /\ bpc = "done" /\ Len(bargv) = 2 /\ bexit = 1
    /\ bout # <<>>
    /\ bout[Len(bout)].text = "json.decoder.JSONDecodeError: "
    /\ BundlePath(bargv[2]) \in DOMAIN fs
    /\ fs[BundlePath(bargv[2])] = <<"{", "\"", "f", "i", "l", "e", "s", "\"", ":", " ", "[", "\"", "o", "l", "d", ".", "c", "\"", "]", ",", " ", "\"", "a", "s", "t", "\"", ":", " ", "{", "\"", "o", "l", "d", ".", "c", "\"", ":", " ", "1", "}", "}">>

\* the text of a document between the template stretches `a` and `b`
Between(html, a, b) ==
    LET i == CHOOSE k \in 1..Len(html) : html[k] = [src |-> "tpl", ch |-> a]
        j == CHOOSE k \in 1..Len(html) : html[k] = [src |-> "tpl", ch |-> b]
    IN  SubSeq(TextOf(html), i + 1, j - 1)

RECURSIVE AstFold(_, _, _, _)
AstFold(bundle, files, q, i) ==
    IF i > Len(q) THEN bundle
    ELSE AstFold(SetAst(bundle, AstKeyOf(q[i]), Loads(ReadText(files[q[i]])).v),
                 files, q, i + 1)

BundleFrom(files, repo, q) ==
    AstFold(BundleLiteral([i \in 1..Len(TextArtifacts) |->
                              ReadText(files[OutDir(repo) \o TextArtifacts[i].name])]),
            files, q, 1)

\* a document with the seven keys, as only a builder run writes
WrittenByBuilder(content) ==
    LET doc == Loads(ReadText(content))
    IN  doc.ok /\ doc.v.t = "obj" /\ Keys(doc.v) = BundleKeys

Components(path) ==
    LET cuts == {0} \cup {i \in 1..Len(path) : path[i] = "/"} \cup {Len(path) + 1}
        Nth(k) == CHOOSE i \in cuts : Cardinality({j \in cuts : j < i}) = k - 1
    IN  [k \in 1..(Cardinality(cuts) - 1) |->
            SubSeq(path, Nth(k) + 1, Nth(k + 1) - 1)]

\* path resolution over directories that exist: "" and "." stay in place,
\* ".." steps back to the parent
RECURSIVE Walk(_, _, _)
Walk(parts, i, stack) ==
    IF i > Len(parts) THEN stack
    ELSE IF parts[i] = <<>> \/ parts[i] = <<".">>
    THEN Walk(parts, i + 1, stack)
    ELSE IF parts[i] = <<".", ".">> /\ stack # <<>>
            /\ stack[Len(stack)] # <<".", ".">>
    THEN Walk(parts, i + 1, SubSeq(stack, 1, Len(stack) - 1))
    ELSE Walk(parts, i + 1, Append(stack, parts[i]))

\* the file or directory the operating system reaches by a path string
Resolve(path) ==
    LET parts == Walk(Components(path), 1, <<>>)
    IN  Concat([i \in 1..Len(parts) |->
                   IF i = 1 THEN parts[i] ELSE <<"/">> \o parts[i]])

\* the characters a file object holds back before it writes them out
MaxBuffered == 64

\* the byte a file reads as where nothing was written
Nul == "NUL"

\* write(text) at the offset pos of a file that holds content
WriteAt(content, pos, text) ==
    LET padded == IF Len(content) < pos
                  THEN content \o [i \in 1..(pos - Len(content)) |-> Nul]
                  ELSE content
    IN  SubSeq(padded, 1, pos) \o text
            \o SubSeq(padded, pos + Len(text) + 1, Len(padded))

\* an uncaught exception in process p
CombineRaise(p, exc, arg) ==
    /\ cout' = [cout EXCEPT ![p] = Append(@, Line(exc, arg))]
    /\ cexit' = [cexit EXCEPT ![p] = 1]
    /\ cpc' = [cpc EXCEPT ![p] = "done"]

\* lines 133-146: process p starts; the argument check, then
\* os.makedirs(combined_dir)
CombineStart(p, args) ==
    /\ cpc[p] = "idle"
    /\ cargv' = [cargv EXCEPT ![p] = <<CombineScript>> \o args]
    /\ IF Len(args) # 1
       THEN /\ cout' = [cout EXCEPT ![p] = <<BuilderUsageLine>>]
            /\ cexit' = [cexit EXCEPT ![p] = 1]
            /\ cpc' = [cpc EXCEPT ![p] = "done"]
            /\ UNCHANGED <<dirs, cwrites>>
       ELSE /\ cpc' = [cpc EXCEPT ![p] = "read"]
            /\ dirs' = Makedirs(dirs, Resolve(CombinedDir(args[1])))
            /\ cwrites' = [cwrites EXCEPT ![p] = @ \cup (dirs' \ dirs)]
            /\ UNCHANGED <<cout, cexit>>
    /\ UNCHANGED <<fs, cbundle, cglob, cbuf, cpos, creads, clast, bVars, rVars>>

\* lines 150-167: the bundle literal, then glob.glob
CombineRead(p) ==
    /\ cpc[p] = "read"
    /\ LET out == OutDir(cargv[p][2])
           Path(i) == Resolve(out \o TextArtifacts[i].name)
           missing == {i \in 1..Len(TextArtifacts) : Path(i) \notin DOMAIN fs}
           first == CHOOSE i \in missing : \A j \in missing : i <= j
           text == [i \in 1..Len(TextArtifacts) |-> ReadText(fs[Path(i)])]
       IN  IF missing # {}
           THEN /\ CombineRaise(p, "FileNotFoundError: ", out \o TextArtifacts[first].name)
                /\ creads' = [creads EXCEPT ![p] =
                                 @ \cup {Path(i) : i \in 1..(first - 1)}]
                /\ UNCHANGED <<cbundle, cglob>>
           ELSE /\ cbundle' = [cbundle EXCEPT ![p] = BundleLiteral(text)]
                /\ \E q \in Orders(Glob(fs, Resolve(out))) :
                       cglob' = [cglob EXCEPT ![p] = q]
                /\ cpc' = [cpc EXCEPT ![p] = "ast"]
                /\ creads' = [creads EXCEPT ![p] =
                                 @ \cup {Path(i) : i \in 1..Len(TextArtifacts)}
                                   \cup {Resolve(out)}]
                /\ UNCHANGED <<cexit, cout>>
    /\ UNCHANGED <<fsVars, cargv, cbuf, cpos, cwrites, clast, bVars, rVars>>

\* lines 167-173: one iteration of the for loop
CombineLoadAst(p) ==
    /\ cpc[p] = "ast"
    /\ cglob[p] # <<>>
    /\ LET f == Head(cglob[p])
           parsed == Loads(ReadText(fs[f]))
       IN  /\ creads' = [creads EXCEPT ![p] = @ \cup {f}]
           /\ IF ~parsed.ok
              THEN /\ CombineRaise(p, "json.decoder.JSONDecodeError: ", f)
                   /\ UNCHANGED <<cbundle, cglob>>
              ELSE /\ cbundle' = [cbundle EXCEPT ![p] =
                                      SetAst(@, AstKeyOf(f), parsed.v)]
                   /\ cglob' = [cglob EXCEPT ![p] = Tail(@)]
                   /\ UNCHANGED <<cpc, cexit, cout>>
    /\ UNCHANGED <<fsVars, cargv, cbuf, cpos, cwrites, clast, bVars, rVars>>

\* line 177: open(..., "w") creates or truncates bundle.json, the offset of
\* the new file object is 0; line 178: json.dump hands the document to the
\* file object, which holds it back
CombineOpen(p) ==
    /\ cpc[p] = "ast"
    /\ cglob[p] = <<>>
    /\ LET path == Resolve(BundlePath(cargv[p][2]))
       IN  /\ fs' = (path :> <<>>) @@ fs
           /\ cwrites' = [cwrites EXCEPT ![p] = @ \cup {path}]
    /\ cpos' = [cpos EXCEPT ![p] = 0]
    /\ cbuf' = [cbuf EXCEPT ![p] = Dumps(cbundle[p], BundleIndent)]
    /\ cpc' = [cpc EXCEPT ![p] = "dump"]
    /\ UNCHANGED <<dirs, cargv, cbundle, cglob, cexit, cout, creads, clast,
                   bVars, rVars>>

\* line 178: during json.dump the file object holds more than its buffer
\* takes and writes a buffer's worth at its offset
CombineFlush(p) ==
    /\ cpc[p] = "dump"
    /\ Len(cbuf[p]) > MaxBuffered
    /\ LET path == Resolve(BundlePath(cargv[p][2]))
       IN  fs' = (path :> WriteAt(fs[path], cpos[p],
                                  SubSeq(cbuf[p], 1, MaxBuffered))) @@ fs
    /\ cpos' = [cpos EXCEPT ![p] = @ + MaxBuffered]
    /\ cbuf' = [cbuf EXCEPT ![p] = SubSeq(@, MaxBuffered + 1, Len(@))]
    /\ clast' = p
    /\ UNCHANGED <<dirs, cpc, cargv, cbundle, cglob, cexit, cout, creads,
                   cwrites, bVars, rVars>>

\* lines 178-180: the with block ends, the file object writes what it still
\* holds and is closed; the location is printed
CombineClose(p) ==
    /\ cpc[p] = "dump"
    /\ Len(cbuf[p]) <= MaxBuffered
    /\ LET path == Resolve(BundlePath(cargv[p][2]))
       IN  fs' = (path :> WriteAt(fs[path], cpos[p], cbuf[p])) @@ fs
    /\ cpos' = [cpos EXCEPT ![p] = @ + Len(cbuf[p])]
    /\ cbuf' = [cbuf EXCEPT ![p] = <<>>]
    /\ clast' = IF cbuf[p] = <<>> THEN clast ELSE p
    /\ cout' = [cout EXCEPT ![p] =
                   Append(@, Line("[INFO] Bundle created at ",
                                  BundlePath(cargv[p][2])))]
    /\ cpc' = [cpc EXCEPT ![p] = "done"]
    /\ UNCHANGED <<dirs, cargv, cbundle, cglob, cexit, creads, cwrites,
                   bVars, rVars>>

\* the repository arguments of the concurrent runs: the analysed
\* repository, the same directory by a path with "." and by one with "..",
\* and the repository without artifacts
ConcurrentArgs ==
    {<<Analysed>>, <<<<".", "/", "z", "l", "i", "b">>>>, <<<<"z", "l", "i", "b", "/", ".", ".", "/", "z", "l", "i", "b">>>>, <<<<"s", "s", "l">>>>}

\* the files the concurrent runs start from: the raw directory of the
\* analysed repository with two AST files, beside no bundle.json or the one
\* of the older layout
ConcurrentStarts ==
    {RawDir(Analysed, PlainFiles, PlainText,
            {a \in AstFiles : a.path \in {<<"/", "a", ".", "c", ".", "a", "s", "t", ".", "j", "s", "o", "n">>, <<"/", "s", ".", "a", "s", "t", ".", "j", "s", "o", "n">>}}, 0)
        \cup old :
        old \in {{}, {File(BundlePath(Analysed), <<"{", "\"", "f", "i", "l", "e", "s", "\"", ":", " ", "[", "\"", "o", "l", "d", ".", "c", "\"", "]", ",", " ", "\"", "a", "s", "t", "\"", ":", " ", "{", "\"", "o", "l", "d", ".", "c", "\"", ":", " ", "1", "}", "}">>)}}}

InitConcurrent ==
    /\ \E entries \in ConcurrentStarts :
           /\ fs = FsOf(entries)
           /\ dirs = DirsOf(entries) \cup Ancestors(Dirname(CombinedDir(Analysed)))
    /\ bpc = "idle"
    /\ bargv = <<CombineScript>>
    /\ bbundle = JNull
    /\ bglob = <<>>
    /\ bexit = 0
    /\ bout = <<>>
    /\ rpc = "idle"
    /\ rargv = <<RenderScript>>
    /\ rbundle = JNull
    /\ rexit = 0
    /\ rout = <<>>
    /\ ProcsIdle

NextConcurrent ==
    \E p \in Procs :
        \/ \E args \in ConcurrentArgs : CombineStart(p, args)
        \/ CombineRead(p)
        \/ CombineLoadAst(p)
        \/ CombineOpen(p)
        \/ CombineFlush(p)
        \/ CombineClose(p)

SpecConcurrent == InitConcurrent /\ [][NextConcurrent]_vars

\* C14: two runs of combine.py at once for different repository arguments
\* touch disjoint files and directories: what one has created or written,
\* the other has neither read nor created nor written.
C14_DisjointSubtrees ==
    \A p, q \in Procs :
        (/\ p # q
         /\ Len(cargv[p]) = 2
         /\ Len(cargv[q]) = 2
         /\ cargv[p][2] # cargv[q][2])
        => cwrites[p] \cap (creads[q] \cup cwrites[q]) = {}

\* C15: once two runs of combine.py for the same repository argument, at
\* once and each with status 0, have both ended, bundle.json holds the whole
\* document of the run that wrote to it last.
C15_LastWriterWins ==
    \A p, q \in Procs :
        (/\ p # q
         /\ cpc[p] = "done" /\ cexit[p] = 0 /\ Len(cargv[p]) = 2
         /\ cpc[q] = "done" /\ cexit[q] = 0 /\ Len(cargv[q]) = 2
         /\ cargv[p][2] = cargv[q][2])
        => fs[Resolve(BundlePath(cargv[p][2]))]
               = Dumps(cbundle[clast], BundleIndent)

====
